---- MODULE Spec2Model ----
(***************************************************************************)
(* Athena Assist Bot: the retrieval-augmented session controller           *)
(* (modules/rag_handler.py), the Groq completion client                    *)
(* (modules/llm_handler.py) and the chat input handler (app.py).           *)
(*                                                                         *)
(* Text is modelled as a sequence of lines, a line as a record             *)
(* [k |-> kind, v |-> value]; an optional value (Python None or an object) *)
(* as a sequence of length 0 or 1; a raised exception as a record          *)
(* [kind |-> class name, msg |-> message, detail |-> interpolated part].   *)
(***************************************************************************)
EXTENDS Integers, Sequences, FiniteSets, TLC

VARIABLES
    rag_chain,      \* RAGHandler.rag_chain: None or the installed chain
    pcS,            \* position of the thread running a setup_rag_from_* call
    upload,         \* the uploaded_file argument of setup_rag_from_file: None or a file
    content,        \* local `content` / `file_content` of the setup call
    chunks,         \* local `chunks` of _create_rag_chain_from_content
    vectorstore,    \* the FAISS store while FAISS.from_texts builds it
    setupResult,    \* how the last setup call ended
    everInstalled,  \* history: line 62 has been executed at least once
    replaced,       \* history: line 62 last overwrote a chain holding a chunk the
                    \* new chain lacks
    pcA,            \* position of the thread running a get_rag_response call
    final_chain,    \* local `final_chain` of get_rag_response: None or a chain
    retrieved,      \* the `context` the retriever produced inside invoke
    askResult,      \* how the last get_rag_response call ended
    askFresh,       \* history: no chain was installed since this ask was called
    api_key,        \* _call_groq_api: the api_key argument (None, "" or a key)
    env_key,        \* os.getenv("GROQ_API_KEY"): None or a key
    upstream,       \* what client.chat.completions.create does with the request
    pcApi,          \* position of a _call_groq_api call
    apiResult,      \* how the _call_groq_api call ended
    messages,       \* st.session_state.messages
    session_key,    \* st.session_state.api_key: None or a key
    lastCall,       \* how the completion call of the last handled prompt ended
    request         \* get_intelligent_response: None or the request it last built

ragVars == <<rag_chain, pcS, upload, content, chunks, vectorstore, setupResult,
             everInstalled, replaced, pcA, final_chain, retrieved, askResult, askFresh>>

apiVars == <<api_key, env_key, upstream, pcApi, apiResult>>

chatVars == <<messages, session_key, lastCall, request>>

outsideRag == <<apiVars, chatVars>>

vars == <<ragVars, apiVars, chatVars>>

----------------------------------------------------------------------------
(* Bounds of the model *)

MaxDocLines == 2

----------------------------------------------------------------------------
(* Values *)

None == <<>>
Some(x) == <<x>>

\* How a call ended: not at all yet, by returning `value`, or by raising.
NoResult ==
    [status |-> "none", kind |-> "", msg |-> "", detail |-> "", value |-> <<>>]
Returned(value) ==
    [status |-> "ok", kind |-> "", msg |-> "", detail |-> "", value |-> value]
Raised(kind, msg, detail) ==
    [status |-> "error", kind |-> kind, msg |-> msg, detail |-> detail,
     value |-> <<>>]

TextLine(v) == [k |-> "text", v |-> v]
BlankLine == [k |-> "blank", v |-> ""]

\* The lines a pasted schema text is made of: a long line, a short line, an
\* empty line.
TextWords == {"a", "c"}
TextLines == {TextLine(w) : w \in TextWords} \cup {BlankLine}

SeqsUpTo(S, n) == UNION {[1..m -> S] : m \in 0..n}

Documents == SeqsUpTo(TextLines, MaxDocLines)

----------------------------------------------------------------------------
(* rag_handler.py: CharacterTextSplitter(separator="\n", chunk_size=1000,  *)
(* chunk_overlap=200, length_function=len).split_text                      *)

chunk_size == 1000
chunk_overlap == 200
separator_len == 1

\* len() of one line of text
LineLen(l) ==
    CASE l.k = "blank" -> 0
      [] l.k = "text" -> (IF l.v = "a" THEN 600 ELSE IF l.v = "c" THEN 150 ELSE 1)
      [] l.k = "hdr" -> 22 + (IF l.v = "id" THEN 2 ELSE 4)
      [] l.k = "cols" -> 10
      [] l.k = "item" -> 7
      [] OTHER -> 1

\* text.split("\n") with the empty pieces dropped
RECURSIVE SplitOnSeparator(_)
SplitOnSeparator(text) ==
    IF text = <<>> THEN <<>>
    ELSE IF LineLen(Head(text)) = 0 THEN SplitOnSeparator(Tail(text))
    ELSE <<Head(text)>> \o SplitOnSeparator(Tail(text))

SepLen(cur) == IF Len(cur) > 0 THEN separator_len ELSE 0

\* the `while` loop that drops the front of the closed chunk down to the overlap
RECURSIVE PopFront(_, _, _)
PopFront(cur, total, len) ==
    IF total > chunk_overlap
         \/ (total + len + SepLen(cur) > chunk_size /\ total > 0)
    THEN PopFront(Tail(cur),
                  total - (LineLen(Head(cur))
                           + (IF Len(cur) > 1 THEN separator_len ELSE 0)),
                  len)
    ELSE <<cur, total>>

\* _merge_splits: pack the pieces greedily into chunks of at most chunk_size
RECURSIVE MergeSplits(_, _, _, _)
MergeSplits(splits, docs, cur, total) ==
    IF splits = <<>>
    THEN IF cur = <<>> THEN docs ELSE Append(docs, cur)
    ELSE LET d == Head(splits)
             len == LineLen(d)
             close == (total + len + SepLen(cur) > chunk_size) /\ cur # <<>>
             docs1 == IF close THEN Append(docs, cur) ELSE docs
             kept == IF close THEN PopFront(cur, total, len) ELSE <<cur, total>>
             cur2 == Append(kept[1], d)
             total2 == kept[2] + len
                         + (IF Len(cur2) > 1 THEN separator_len ELSE 0)
         IN MergeSplits(Tail(splits), docs1, cur2, total2)

split_text(text) == MergeSplits(SplitOnSeparator(text), <<>>, <<>>, 0)

----------------------------------------------------------------------------
(* rag_handler.py: uploaded files and RAGHandler._load_and_process_file    *)

MaxRows == 2

PlainType == "text/plain"
CsvType == "text/csv"
XlsxType == "application/vnd.openxmlformats-officedocument.spreadsheetml.sheet"
PdfType == "application/pdf"
FileTypes == {PlainType, CsvType, XlsxType, PdfType}

\* A cell of a DataFrame is null (NaN) or a value; a value is the sequence of
\* the pieces of its text between line breaks, so <<"3", "4">> is "3\n4".
NullCell == <<>>
Cells == {NullCell, <<"1">>, <<"2">>, <<"3", "4">>}

ColNames == {"id", "name"}
ColumnOrders ==
    {s \in SeqsUpTo(ColNames, Cardinality(ColNames)) :
        \A i, j \in 1..Len(s) : s[i] = s[j] => i = j}

\* df.columns in file order, each column with its cells in row order
DataFrames ==
    UNION {UNION {{[i \in 1..Len(cs) |-> [name |-> cs[i], cells |-> c[i]]] :
                      c \in [1..Len(cs) -> [1..n -> Cells]]} :
                  cs \in ColumnOrders} :
           n \in 0..MaxRows}

\* An uploaded file: its declared media type, whether its bytes decode (plain
\* text) or parse (tables), and what they decode or parse to.
File(type, ok, text, df) == [type |-> type, ok |-> ok, text |-> text, df |-> df]

Files ==
    {File(PlainType, TRUE, d, <<>>) : d \in Documents}
        \cup {File(t, FALSE, <<>>, <<>>) : t \in FileTypes}
        \cup {File(PdfType, TRUE, <<>>, <<>>)}
        \cup {File(t, TRUE, <<>>, df) : t \in {CsvType, XlsxType}, df \in DataFrames}

\* df[col].dropna()
RECURSIVE dropna(_)
dropna(cells) ==
    IF cells = <<>> THEN <<>>
    ELSE IF Head(cells) = NullCell THEN dropna(Tail(cells))
    ELSE <<Head(cells)>> \o dropna(Tail(cells))

\* output.write(f"    - {item}\n"): the lines it adds to the output
ItemLines(item) ==
    <<[k |-> "item", v |-> item[1]]>>
        \o [i \in 1..(Len(item) - 1) |-> TextLine(item[i + 1])]

RECURSIVE WriteItems(_)
WriteItems(items) ==
    IF items = <<>> THEN <<>>
    ELSE ItemLines(Head(items)) \o WriteItems(Tail(items))

\* the body of `for col in df.columns`
WriteColumn(col) ==
    <<[k |-> "hdr", v |-> col.name], [k |-> "cols", v |-> ""]>>
        \o WriteItems(dropna(col.cells))
        \o <<BlankLine>>

\* WriteColumns as it would be if the columns were visited last to first
RECURSIVE WriteColumnsReversed(_)
WriteColumnsReversed(df) ==
    IF df = <<>> THEN <<>>
    ELSE WriteColumnsReversed(Tail(df)) \o WriteColumn(Head(df))

RECURSIVE WriteColumns(_)
WriteColumns(df) ==
    IF df = <<>> THEN <<>>
    ELSE WriteColumn(Head(df)) \o WriteColumns(Tail(df))

\* the `try` block of _load_and_process_file
LoadTryBody(f) ==
    IF f.type = PlainType
    THEN IF f.ok THEN Returned(f.text)
         ELSE Raised("UnicodeDecodeError", "'utf-8' codec can't decode", "")
    ELSE IF f.type \in {CsvType, XlsxType}
    THEN IF f.ok THEN Returned(WriteColumns(f.df))
         ELSE Raised("ParserError", "Error tokenizing data", "")
    ELSE Raised("ValueError", "Unsupported file type", f.type)

\* _load_and_process_file: `except Exception as e: raise RuntimeError(...)`
load_and_process_file(f) ==
    LET r == LoadTryBody(f)
    IN IF r.status = "error"
       THEN Raised("RuntimeError", "Failed to read or process file", r.msg)
       ELSE r

----------------------------------------------------------------------------
(* rag_handler.py: class RAGHandler.  A setup call and an ask call run in  *)
(* two threads of one session; each action below is one step between two   *)
(* points where the other thread may run.                                  *)

\* The chain line 56-61 composes: the retriever over the FAISS store built
\* from `texts` (with `of`, the content the store was built from, kept as
\* history) piped into the llm chain.
Chain(texts, of) == [chunks |-> texts, of |-> of]

\* retriever default: the k most similar chunks
DefaultK == 4

\* The files a session uploads in the two-thread specification
SessionFiles ==
    {File(PdfType, TRUE, <<>>, <<>>), File(PlainType, FALSE, <<>>, <<>>),
     File(CsvType, TRUE, <<>>,
          <<[name |-> "id", cells |-> <<NullCell, <<"1">>>>]>>)}

\* a setup call ends by raising `err`: its locals are gone, nothing else changes
SetupRaises(err) ==
    /\ setupResult' = err
    /\ pcS' = "idle"
    /\ upload' = None
    /\ content' = <<>>
    /\ chunks' = <<>>
    /\ vectorstore' = <<>>
    /\ UNCHANGED <<rag_chain, everInstalled, replaced, askFresh>>

askVars == <<pcA, final_chain, retrieved, askResult>>

\* setup_rag_from_text(text_content) is called (line 68)
setup_rag_from_text(text_content) ==
    /\ pcS = "idle"
    /\ pcS' = "split"
    /\ content' = text_content
    /\ setupResult' = NoResult
    /\ UNCHANGED <<rag_chain, upload, chunks, vectorstore, everInstalled,
                   replaced, askFresh, askVars, outsideRag>>

\* setup_rag_from_file(uploaded_file) is called (line 64)
setup_rag_from_file(uploaded_file) ==
    /\ pcS = "idle"
    /\ pcS' = "load"
    /\ upload' = Some(uploaded_file)
    /\ setupResult' = NoResult
    /\ UNCHANGED <<rag_chain, content, chunks, vectorstore, everInstalled,
                   replaced, askFresh, askVars, outsideRag>>

\* line 65: file_content = self._load_and_process_file(uploaded_file)
LoadFile ==
    /\ pcS = "load"
    /\ LET r == load_and_process_file(upload[1])
       IN IF r.status = "error"
          THEN SetupRaises(r)
          ELSE /\ content' = r.value
               /\ pcS' = "split"
               /\ UNCHANGED <<rag_chain, upload, chunks, vectorstore,
                              setupResult, everInstalled, replaced,
                              askFresh>>
    /\ UNCHANGED <<askVars, outsideRag>>

\* lines 45-49: split the content, raise when there is no chunk
SplitContent ==
    /\ pcS = "split"
    /\ LET cs == split_text(content)
       IN IF cs = <<>>
          THEN SetupRaises(Raised("ValueError",
                                  "Could not extract any text chunks", ""))
          ELSE /\ chunks' = cs
               /\ pcS' = "embed"
               /\ vectorstore' = <<>>
               /\ UNCHANGED <<rag_chain, upload, content, setupResult,
                              everInstalled, replaced, askFresh>>
    /\ UNCHANGED <<askVars, outsideRag>>

\* EmbedChunk as it would be if the store were published in self.rag_chain
\* while it is being filled
EmbedChunkPublishing ==
    /\ pcS = "embed"
    /\ Len(vectorstore) < Len(chunks)
    /\ vectorstore' = Append(vectorstore, chunks[Len(vectorstore) + 1])
    /\ rag_chain' = Some(Chain(vectorstore', content))
    /\ UNCHANGED <<pcS, upload, content, chunks, setupResult,
                   everInstalled, replaced, askFresh, askVars, outsideRag>>

\* line 51, inside FAISS.from_texts: the next chunk is embedded and added
EmbedChunk ==
    /\ pcS = "embed"
    /\ Len(vectorstore) < Len(chunks)
    /\ vectorstore' = Append(vectorstore, chunks[Len(vectorstore) + 1])
    /\ UNCHANGED <<rag_chain, pcS, upload, content, chunks, setupResult,
                   everInstalled, replaced, askFresh, askVars, outsideRag>>

\* line 51: the embedding model or the index build fails
EmbedFails ==
    /\ pcS = "embed"
    /\ SetupRaises(Raised("RuntimeError", "embedding failed", ""))
    /\ UNCHANGED <<askVars, outsideRag>>

\* lines 51-61: from_texts returns the complete store; retriever and chain
\* are composed in locals
ComposeChain ==
    /\ pcS = "embed"
    /\ Len(vectorstore) = Len(chunks)
    /\ pcS' = "assign"
    /\ UNCHANGED <<rag_chain, upload, content, chunks, vectorstore,
                   setupResult, everInstalled, replaced, askFresh, askVars, outsideRag>>

\* line 53: get_llm_chain raises (no API key)
LlmChainFails ==
    /\ pcS = "embed"
    /\ Len(vectorstore) = Len(chunks)
    /\ SetupRaises(Raised("ValueError", "Groq API Key not found", ""))
    /\ UNCHANGED <<askVars, outsideRag>>

\* AssignChain as it would be if the new texts were added to the store of the
\* chain already installed
AssignChainMerging ==
    /\ pcS = "assign"
    /\ rag_chain' = Some(Chain((IF rag_chain = None THEN <<>>
                                 ELSE rag_chain[1].chunks) \o vectorstore,
                               content))
    /\ everInstalled' = TRUE
    /\ replaced' = (/\ rag_chain # None
                    /\ \E i \in 1..Len(rag_chain[1].chunks) :
                          \A j \in 1..Len(vectorstore) :
                             rag_chain[1].chunks[i] # vectorstore[j])
    /\ askFresh' = FALSE
    /\ setupResult' = Returned(<<>>)
    /\ pcS' = "idle"
    /\ upload' = None
    /\ content' = <<>>
    /\ chunks' = <<>>
    /\ vectorstore' = <<>>
    /\ UNCHANGED <<askVars, outsideRag>>

\* line 62: self.rag_chain = conversational_rag_chain; the call returns
AssignChain ==
    /\ pcS = "assign"
    /\ rag_chain' = Some(Chain(vectorstore, content))
    /\ everInstalled' = TRUE
    /\ replaced' = (/\ rag_chain # None
                    /\ \E i \in 1..Len(rag_chain[1].chunks) :
                          \A j \in 1..Len(vectorstore) :
                             rag_chain[1].chunks[i] # vectorstore[j])
    /\ askFresh' = FALSE
    /\ setupResult' = Returned(<<>>)
    /\ pcS' = "idle"
    /\ upload' = None
    /\ content' = <<>>
    /\ chunks' = <<>>
    /\ vectorstore' = <<>>
    /\ UNCHANGED <<askVars, outsideRag>>

setupVars == <<pcS, upload, content, chunks, vectorstore, setupResult,
               everInstalled, replaced>>

\* an ask call ends by raising or returning: its locals are gone
AskEnds(r) ==
    /\ askResult' = r
    /\ pcA' = "idle"
    /\ final_chain' = None
    /\ retrieved' = {}
    /\ UNCHANGED <<rag_chain, askFresh>>

\* get_rag_response(question, chat_history) is called (line 72)
get_rag_response ==
    /\ pcA = "idle"
    /\ pcA' = "guard"
    /\ askResult' = NoResult
    /\ askFresh' = TRUE
    /\ UNCHANGED <<rag_chain, final_chain, retrieved, setupVars, outsideRag>>

\* GuardChain as it would be without the check of line 74
GuardChainMissing ==
    /\ pcA = "guard"
    /\ pcA' = "compose"
    /\ UNCHANGED <<rag_chain, final_chain, retrieved, askResult, askFresh>>
    /\ UNCHANGED <<setupVars, outsideRag>>

\* lines 74-75: if not self.rag_chain: raise ValueError
GuardChain ==
    /\ pcA = "guard"
    /\ IF rag_chain = None
       THEN AskEnds(Raised("ValueError", "RAG chain is not initialized", ""))
       ELSE /\ pcA' = "compose"
            /\ UNCHANGED <<rag_chain, final_chain, retrieved, askResult,
                           askFresh>>
    /\ UNCHANGED <<setupVars, outsideRag>>

\* lines 83-86: final_chain = self.rag_chain | output_parser
ComposeFinal ==
    /\ pcA = "compose"
    /\ IF rag_chain = None
       THEN AskEnds(Raised("TypeError", "unsupported operand type(s) for |", ""))
       ELSE /\ final_chain' = rag_chain
            /\ pcA' = "retrieve"
            /\ UNCHANGED <<rag_chain, retrieved, askResult, askFresh>>
    /\ UNCHANGED <<setupVars, outsideRag>>

Min(a, b) == IF a < b THEN a ELSE b

\* the results a similarity search over `store` may rank first
TopK(store) ==
    {{store[i] : i \in I} :
        I \in {J \in SUBSET (1..Len(store)) :
                 Cardinality(J) = Min(DefaultK, Len(store))}}

\* line 89, first stage of invoke (line 58): the retriever fetches the context
Retrieve ==
    /\ pcA = "retrieve"
    /\ \E ctx \in TopK(final_chain[1].chunks) :
           /\ retrieved' = ctx
           /\ pcA' = "complete"
           /\ UNCHANGED <<rag_chain, final_chain, askResult, askFresh>>
    /\ UNCHANGED <<setupVars, outsideRag>>

\* line 89: embedding the question fails
RetrieveFails ==
    /\ pcA = "retrieve"
    /\ AskEnds(Raised("RuntimeError", "embedding failed", ""))
    /\ UNCHANGED <<setupVars, outsideRag>>

\* line 89, second stage of invoke (line 60): the llm chain answers (the
\* text of the answer is left out)
Complete ==
    /\ pcA = "complete"
    /\ AskEnds(Returned(<<>>))
    /\ UNCHANGED <<setupVars, outsideRag>>

\* CompleteFails as it would be if a failed completion dropped the chain
CompleteFailsClearing ==
    /\ pcA = "complete"
    /\ \E kind \in {"ConnectionError", "ValueError", "RuntimeError"} :
           /\ askResult' = Raised(kind, "Groq", "")
           /\ pcA' = "idle"
           /\ final_chain' = None
           /\ retrieved' = {}
           /\ rag_chain' = None
           /\ UNCHANGED askFresh
    /\ UNCHANGED <<setupVars, outsideRag>>

\* line 89: the llm chain's completion call raises
CompleteFails ==
    /\ pcA = "complete"
    /\ \E kind \in {"ConnectionError", "ValueError", "RuntimeError"} :
           AskEnds(Raised(kind, "Groq", ""))
    /\ UNCHANGED <<setupVars, outsideRag>>

\* no _call_groq_api call and no chat session is part of the behaviour
NoApiCall ==
    /\ api_key = None
    /\ env_key = None
    /\ upstream = <<>>
    /\ pcApi = "idle"
    /\ apiResult = NoResult

NoChat ==
    /\ messages = <<>>
    /\ session_key = None
    /\ lastCall = NoResult
    /\ request = None

\* RAGHandler.__init__ (lines 14-18); no call is in progress
NewHandler ==
    /\ rag_chain = None
    /\ pcS = "idle"
    /\ upload = None
    /\ content = <<>>
    /\ chunks = <<>>
    /\ vectorstore = <<>>
    /\ setupResult = NoResult
    /\ everInstalled = FALSE
    /\ replaced = FALSE
    /\ pcA = "idle"
    /\ final_chain = None
    /\ retrieved = {}
    /\ askResult = NoResult
    /\ askFresh = FALSE

Init == NewHandler /\ NoApiCall /\ NoChat

Next ==
    \/ \E d \in Documents : setup_rag_from_text(d)
    \/ \E f \in SessionFiles : setup_rag_from_file(f)
    \/ LoadFile
    \/ SplitContent
    \/ EmbedChunk
    \/ EmbedFails
    \/ ComposeChain
    \/ LlmChainFails
    \/ AssignChain
    \/ get_rag_response
    \/ GuardChain
    \/ ComposeFinal
    \/ Retrieve
    \/ RetrieveFails
    \/ Complete
    \/ CompleteFails

Spec == Init /\ [][Next]_vars

----------------------------------------------------------------------------
(* Properties of the session controller, under Spec *)

Range(f) == {f[i] : i \in DOMAIN f}

NoActiveIndex(r) ==
    /\ r.status = "error"
    /\ r.kind = "ValueError"
    /\ r.msg = "RAG chain is not initialized"

\* C1: as long as no setup has completed successfully, an ask never gets past
\* the check of line 74: it has not reached retrieval or the completion call,
\* and every ask that has ended raised the no-active-index error.
C1_AskBeforeSetupFails ==
    ~everInstalled =>
        /\ pcA \in {"idle", "guard"}
        /\ final_chain = None
        /\ retrieved = {}
        /\ askResult.status # "none" => NoActiveIndex(askResult)

\* an ask has failed with the no-active-index error after a setup had failed
C1_Witness ==
    /\ ~everInstalled
    /\ setupResult.status = "error"
    /\ pcA = "idle"
    /\ NoActiveIndex(askResult)

\* C2: whenever a setup call has failed, the controller is Uninitialized:
\* no chain is installed.
C2_FailedSetupLeavesUninitialized ==
    (pcS = "idle" /\ setupResult.status = "error") => rag_chain = None

\* C3: an ask called after the newest successful setup retrieves only chunks
\* of the document that setup was given.
C3_AskRetrievesNewestOnly ==
    (pcA = "complete" /\ askFresh) =>
        /\ rag_chain # None
        /\ retrieved # {}
        /\ retrieved \subseteq Range(split_text(rag_chain[1].of))

\* an ask called after a setup that replaced a chain with other chunks has
\* retrieved its context
C3_Witness ==
    /\ pcA = "complete"
    /\ askFresh
    /\ replaced
    /\ retrieved # {}

\* the chain `c` is the whole index of the document it was built from
CompleteIndex(c) == c.chunks = split_text(c.of) /\ c.chunks # <<>>

\* C4: at every step of every interleaving of a setup and an ask, the chain
\* installed in the handler and the chain an ask holds are each none or the
\* complete index of one document; the store being built is never one of them.
C4_NoHalfBuiltIndex ==
    /\ rag_chain # None => CompleteIndex(rag_chain[1])
    /\ final_chain # None => CompleteIndex(final_chain[1])
    /\ (pcA \in {"retrieve", "complete"}) => final_chain # None

\* an ask is using a chain while a setup has built half of a new store
C4_Witness ==
    /\ pcS = "embed"
    /\ 0 < Len(vectorstore)
    /\ Len(vectorstore) < Len(chunks)
    /\ pcA \in {"retrieve", "complete"}
    /\ final_chain = rag_chain

\* C5: no step of an ask, failing or not, changes the installed chain.
C5_AskKeepsIndex == [][(pcA' # pcA) => (rag_chain' = rag_chain)]_vars

\* an ask has failed in the completion call and the chain is still installed
C5_Witness ==
    /\ pcA = "idle"
    /\ askResult.status = "error"
    /\ askResult.msg = "Groq"
    /\ rag_chain # None

----------------------------------------------------------------------------
(* setup_rag_from_file on one uploaded file, run alone on a fresh handler:  *)
(* the file is drawn when the call is made, the steps of the call follow.  *)

InitFile ==
    /\ NoApiCall
    /\ NoChat
    /\ rag_chain = None
    /\ pcS = "load"
    /\ upload \in {Some(f) : f \in Files}
    /\ content = <<>>
    /\ chunks = <<>>
    /\ vectorstore = <<>>
    /\ setupResult = NoResult
    /\ everInstalled = FALSE
    /\ replaced = FALSE
    /\ pcA = "idle"
    /\ final_chain = None
    /\ retrieved = {}
    /\ askResult = NoResult
    /\ askFresh = FALSE

NextFile ==
    \/ LoadFile
    \/ SplitContent
    \/ EmbedChunk
    \/ EmbedFails
    \/ ComposeChain
    \/ LlmChainFails
    \/ AssignChain

SpecFile == InitFile /\ [][NextFile]_vars

----------------------------------------------------------------------------
(* Properties of the content extractor, under SpecFile *)

SupportedTypes == {PlainType, CsvType, XlsxType}

\* the error kind raised for a plain-text file whose bytes do not decode
DecodingErrorKind ==
    load_and_process_file(File(PlainType, FALSE, <<>>, <<>>)).kind

\* the step of line 65 is taken on a file of this description
Extracting(f) == pcS = "load" /\ pcS' # "load" /\ upload = Some(f)

\* the step raised, returned no text and installed nothing
ExtractionFailed ==
    /\ setupResult'.status = "error"
    /\ pcS' = "idle"
    /\ content' = <<>>
    /\ rag_chain' = rag_chain

\* C9: extracting a file of an unsupported media type fails with an error
\* kind of its own, different from the kind raised for a plain-text file with
\* invalid encoding; in both cases no text is returned and nothing is
\* installed.
C9_UnsupportedKindDistinct ==
    [][\A f \in Files :
          /\ (Extracting(f) /\ f.type \notin SupportedTypes) =>
                 /\ ExtractionFailed
                 /\ setupResult'.kind # DecodingErrorKind
          /\ (Extracting(f) /\ f.type = PlainType /\ ~f.ok) =>
                 /\ ExtractionFailed
                 /\ setupResult'.kind = DecodingErrorKind]_vars

\* the i-th line of kind `kind` in `text` is at this position
PosOf(text, kind, i) ==
    CHOOSE p \in 1..Len(text) :
        /\ text[p].k = kind
        /\ Cardinality({q \in 1..p : text[q].k = kind}) = i

CountOf(text, kind) == Cardinality({q \in 1..Len(text) : text[q].k = kind})

NonNull(cells) == SelectSeq(cells, LAMBDA c : c # NullCell)

\* the lines of column i's block between its first line and its blank line
BlockBody(text, i) ==
    SubSeq(text, PosOf(text, "hdr", i) + 1, PosOf(text, "blank", i) - 1)

\* `lines` is one line per cell of `cells`, in order, each naming its cell
OneLinePerCell(lines, cells) ==
    /\ Len(lines) = Len(cells)
    /\ \A j \in 1..Len(cells) :
          lines[j].k = "item" /\ lines[j].v = cells[j][1]

\* `text` is made of one block per column of df, in file order, each block
\* opened by the header line naming its column and closed by a blank line
BlocksInFileOrder(text, df) ==
    /\ CountOf(text, "hdr") = Len(df)
    /\ CountOf(text, "blank") = Len(df)
    /\ \A i \in 1..Len(df) :
          /\ text[PosOf(text, "hdr", i)].v = df[i].name
          /\ PosOf(text, "hdr", i) < PosOf(text, "blank", i)
          /\ PosOf(text, "hdr", i) =
                 (IF i = 1 THEN 1 ELSE PosOf(text, "blank", i - 1) + 1)
    /\ (text # <<>>) => text[Len(text)].k = "blank"

\* the setup call has extracted the text of a table
TableExtracted ==
    /\ pcS = "split"
    /\ upload # None
    /\ upload[1].type \in {CsvType, XlsxType}

\* C10 as claimed: each block is the header line, then exactly one line per
\* non-null cell in row order, then the blank line.
C10_BlockIsHeaderCellsBlank ==
    TableExtracted =>
        /\ BlocksInFileOrder(content, upload[1].df)
        /\ \A i \in 1..Len(upload[1].df) :
              OneLinePerCell(BlockBody(content, i),
                             NonNull(upload[1].df[i].cells))

\* C10, amended: each block is the header line, then the fixed "Columns:"
\* label line, then one entry per non-null cell in row order (one line when
\* the cell's text has no line break, the cell's text over several lines
\* otherwise), then the blank line; null cells produce nothing.
C10_BlockIsHeaderLabelCellsBlank ==
    TableExtracted =>
        /\ BlocksInFileOrder(content, upload[1].df)
        /\ \A i \in 1..Len(upload[1].df) :
              LET body == BlockBody(content, i)
                  cells == NonNull(upload[1].df[i].cells)
              IN /\ body # <<>>
                 /\ body[1] = [k |-> "cols", v |-> ""]
                 /\ OneLinePerCell(SelectSeq(Tail(body),
                                             LAMBDA l : l.k = "item"),
                                   cells)
                 /\ (\A j \in 1..Len(cells) : Len(cells[j]) = 1) =>
                        OneLinePerCell(Tail(body), cells)

\* the text of a table of two columns and two rows with a null cell and a
\* non-null cell in the same column has been extracted
C10_Witness ==
    /\ TableExtracted
    /\ Len(upload[1].df) = 2
    /\ upload[1].df[1].cells = <<NullCell, <<"2">>>>
    /\ upload[1].df[2].cells = <<<<"1">>, <<"2">>>>
    /\ Len(content) = 9

----------------------------------------------------------------------------
(* llm_handler.py: _get_groq_client and _call_groq_api                     *)

MaxContentLen == 3

\* The characters of a completion text; str.strip() removes the first two.
Whitespace == {" ", "\n"}
Chars == Whitespace \cup {"x"}
Contents == SeqsUpTo(Chars, MaxContentLen)

\* The exception classes of the groq client that a request raises
GroqErrors ==
    {"RateLimitError", "AuthenticationError", "BadRequestError",
     "InternalServerError", "APIStatusError", "APIConnectionError",
     "APITimeoutError", "APIResponseValidationError"}

\* the class a class derives from
Base(cls) ==
    CASE cls \in {"RateLimitError", "AuthenticationError", "BadRequestError",
                  "InternalServerError"} -> "APIStatusError"
      [] cls = "APITimeoutError" -> "APIConnectionError"
      [] cls \in {"APIStatusError", "APIConnectionError",
                  "APIResponseValidationError"} -> "APIError"
      [] OTHER -> "Exception"

RECURSIVE IsInstance(_, _)
IsInstance(cls, base) ==
    \/ cls = base
    \/ cls # "Exception" /\ IsInstance(Base(cls), base)

\* e.status_code of an APIStatusError
StatusCode(cls) ==
    CASE cls = "RateLimitError" -> "429"
      [] cls = "AuthenticationError" -> "401"
      [] cls = "BadRequestError" -> "400"
      [] cls = "InternalServerError" -> "500"
      [] OTHER -> "418"

\* What client.chat.completions.create does: raise a groq exception, or
\* return a response whose choices hold the message contents (None or text).
Upstream(raises, choices) == [raises |-> raises, choices |-> choices]

Upstreams ==
    {Upstream(c, <<>>) : c \in GroqErrors}
        \cup {Upstream("", <<>>), Upstream("", <<None>>)}
        \cup {Upstream("", <<Some(t)>>) : t \in Contents}

Keys == {None, Some(""), Some("gsk")}

\* Python truthiness of an optional string
Truthy(o) == o # None /\ o[1] # ""

\* _get_groq_client (lines 39-44)
get_groq_client(key, env) ==
    LET client_api_key == IF Truthy(key) THEN key ELSE env
    IN IF ~Truthy(client_api_key)
       THEN Raised("ValueError", "Groq API Key not found", "")
       ELSE Returned(client_api_key)

RECURSIVE lstrip(_)
lstrip(t) ==
    IF t # <<>> /\ Head(t) \in Whitespace THEN lstrip(Tail(t)) ELSE t

RECURSIVE rstrip(_)
rstrip(t) ==
    IF t # <<>> /\ t[Len(t)] \in Whitespace
    THEN rstrip(SubSeq(t, 1, Len(t) - 1))
    ELSE t

\* strip as it would be if only the leading whitespace were removed
stripLeadingOnly(t) == lstrip(t)

\* str.strip()
strip(t) == rstrip(lstrip(t))

\* the except clauses of _call_groq_api as they would be with the
\* APIStatusError clause written first
ExceptClausesStatusFirst ==
    <<[catch |-> "APIStatusError", kind |-> "RuntimeError",
       msg |-> "Groq API Error"],
      [catch |-> "RateLimitError", kind |-> "ConnectionError",
       msg |-> "Groq rate limit exceeded. Please check your plan."],
      [catch |-> "AuthenticationError", kind |-> "ValueError",
       msg |-> "Authentication failed. Please check your Groq API key."],
      [catch |-> "APIConnectionError", kind |-> "ConnectionError",
       msg |-> "Failed to connect to Groq API"]>>

\* the except clauses of _call_groq_api (lines 55-62), in order: the class
\* caught, the class and the message raised instead
ExceptClauses ==
    <<[catch |-> "RateLimitError", kind |-> "ConnectionError",
       msg |-> "Groq rate limit exceeded. Please check your plan."],
      [catch |-> "AuthenticationError", kind |-> "ValueError",
       msg |-> "Authentication failed. Please check your Groq API key."],
      [catch |-> "APIStatusError", kind |-> "RuntimeError",
       msg |-> "Groq API Error"],
      [catch |-> "APIConnectionError", kind |-> "ConnectionError",
       msg |-> "Failed to connect to Groq API"]>>

\* the first except clause that matches handles the exception; one that no
\* clause matches leaves the function as it is
RECURSIVE Handle(_, _)
Handle(cls, clauses) ==
    IF clauses = <<>> THEN Raised(cls, "", "")
    ELSE LET c == Head(clauses)
         IN IF IsInstance(cls, c.catch)
            THEN Raised(c.kind, c.msg,
                        IF c.catch = "APIStatusError" THEN StatusCode(cls)
                        ELSE IF c.catch = "APIConnectionError" THEN "cause"
                        ELSE "")
            ELSE Handle(cls, Tail(clauses))

\* _call_groq_api (lines 46-62)
call_groq_api(key, env, up) ==
    LET client == get_groq_client(key, env)
    IN IF client.status = "error" THEN client
       ELSE IF up.raises # "" THEN Handle(up.raises, ExceptClauses)
       ELSE IF up.choices = <<>>
       THEN Raised("IndexError", "list index out of range", "")
       ELSE LET c == up.choices[1]
            IN Returned(IF c # None /\ c[1] # <<>> THEN strip(c[1]) ELSE <<>>)

\* one call of _call_groq_api: the arguments, the environment and the
\* service's behaviour are drawn when the call is made
InitApi ==
    /\ NewHandler
    /\ NoChat
    /\ api_key \in Keys
    /\ env_key \in Keys
    /\ upstream \in {Some(u) : u \in Upstreams}
    /\ pcApi = "call"
    /\ apiResult = NoResult

CallGroqApi ==
    /\ pcApi = "call"
    /\ apiResult' = call_groq_api(api_key, env_key, upstream[1])
    /\ pcApi' = "done"
    /\ UNCHANGED <<api_key, env_key, upstream, ragVars, chatVars>>

NextApi == CallGroqApi

SpecApi == InitApi /\ [][NextApi]_vars

----------------------------------------------------------------------------
(* Properties of the completion client, under SpecApi *)

\* the failure cause an exception class of the client stands for
Cause(cls) ==
    CASE cls = "AuthenticationError" -> "credential"
      [] cls = "RateLimitError" -> "quota"
      [] IsInstance(cls, "APIConnectionError") -> "transport"
      [] IsInstance(cls, "APIStatusError") -> "status"
      [] OTHER -> "other"

FourCauses == {"credential", "quota", "transport", "status"}

\* the call has ended after the request raised an exception of one of the
\* four causes
RequestFailed ==
    /\ pcApi = "done"
    /\ get_groq_client(api_key, env_key).status = "ok"
    /\ upstream[1].raises # ""
    /\ Cause(upstream[1].raises) \in FourCauses

\* what the call raises when the request raises `cls`
Surfaced(cls) == call_groq_api(api_key, env_key, Upstream(cls, <<>>))

\* C7 as claimed: a failure is raised, never returned as text, and its error
\* kind differs from the kind raised for every other cause.
C7_FailureKindsPairwiseDistinct ==
    RequestFailed =>
        /\ apiResult.status = "error"
        /\ \A cls \in GroqErrors :
              (Cause(cls) \in FourCauses
                 /\ Cause(cls) # Cause(upstream[1].raises)) =>
                 Surfaced(cls).kind # apiResult.kind

\* the error kind raised for each cause
KindFor(cause) ==
    CASE cause = "credential" -> "ValueError"
      [] cause = "quota" -> "ConnectionError"
      [] cause = "transport" -> "ConnectionError"
      [] cause = "status" -> "RuntimeError"

\* C7, amended: a failure is raised, never returned as text; invalid
\* credential raises ValueError, rate limit and transport failure both raise
\* ConnectionError, any other non-2xx status raises RuntimeError; the errors
\* of two different causes differ in kind or, for rate limit and transport
\* failure, in message only.
C7_FailuresDistinctByKindAndMessage ==
    RequestFailed =>
        /\ apiResult.status = "error"
        /\ apiResult.value = <<>>
        /\ apiResult.kind = KindFor(Cause(upstream[1].raises))
        /\ \A cls \in GroqErrors :
              (Cause(cls) \in FourCauses
                 /\ Cause(cls) # Cause(upstream[1].raises)) =>
                 <<Surfaced(cls).kind, Surfaced(cls).msg>>
                     # <<apiResult.kind, apiResult.msg>>

\* a rate-limited request has been surfaced
C7_Witness ==
    /\ RequestFailed
    /\ upstream[1].raises = "RateLimitError"
    /\ apiResult.kind = "ConnectionError"
    /\ apiResult.kind = Surfaced("APIConnectionError").kind

\* `r` is `t` without its leading and trailing whitespace
IsTrimOf(r, t) ==
    /\ \E i \in 1..(Len(t) + 1), j \in 0..Len(t) :
          /\ r = SubSeq(t, i, j)
          /\ \A k \in 1..(i - 1) : t[k] \in Whitespace
          /\ \A k \in (j + 1)..Len(t) : t[k] \in Whitespace
    /\ r # <<>> => (r[1] \notin Whitespace /\ r[Len(r)] \notin Whitespace)

\* the call has ended after the request returned a response with a choice
ResponseReceived ==
    /\ pcApi = "done"
    /\ get_groq_client(api_key, env_key).status = "ok"
    /\ upstream[1].raises = ""
    /\ upstream[1].choices # <<>>

\* C8: for every successful response the call returns the first choice's
\* content without its surrounding whitespace, and the empty string, without
\* raising, when that content is None or empty.
C8_ReturnsTrimmedContent ==
    ResponseReceived =>
        /\ apiResult.status = "ok"
        /\ LET c == upstream[1].choices[1]
           IN IF c = None \/ c[1] = <<>>
              THEN apiResult.value = <<>>
              ELSE IsTrimOf(apiResult.value, c[1])

\* a content with whitespace on both sides has been returned trimmed
C8_Witness ==
    /\ ResponseReceived
    /\ upstream[1].choices[1] = Some(<<" ", "x", "\n">>)
    /\ apiResult.value = <<"x">>

\* a response without content has been answered with the empty string
C8_WitnessNone ==
    /\ ResponseReceived
    /\ upstream[1].choices[1] = None
    /\ apiResult = Returned(<<>>)

----------------------------------------------------------------------------
(* app.py: the chat history and the chat input handler (lines 253-313)     *)

MaxTurns == 5

\* A turn of the history: its role and its content; the content is told
\* apart by `tag`, with the completion text in `text` and the prompt or the
\* error message in `note`.
Turn(role, tag, text, note) ==
    [role |-> role, tag |-> tag, text |-> text, note |-> note]

\* lines 254-258: the first turn of every session
Greeting == Turn("assistant", "greeting", <<>>, "")

Prompts == {"list all customers", "hello"}

\* is_sql_request (lines 196-210): the prompt contains one of the keywords
is_sql_request(prompt) == prompt \in {"list all customers"}

\* the value of the sidebar's schema text area
SchemaTexts == {"", "CREATE TABLE customers (id INT)"}

\* what the completion service does with the request of one prompt
ChatUpstreams ==
    {Upstream(c, <<>>) :
        c \in {"RateLimitError", "AuthenticationError", "InternalServerError",
               "APIConnectionError"}}
        \cup {Upstream("", <<None>>), Upstream("", <<Some(<<"x", " ">>)>>)}

\* get_sql_query and get_general_response (imported at line 9): each makes
\* one completion call and passes its result or its exception on
get_sql_query(key, up) == call_groq_api(key, None, up)

get_general_response(key, up) == call_groq_api(key, None, up)

\* the handler as it would be if the except block did not append to the
\* history
ChatInputNotAppending(prompt, schema_text, up) ==
    /\ Len(messages) + 2 <= MaxTurns
    /\ LET withUser == Append(messages, Turn("user", "prompt", <<>>, prompt))
           r == IF is_sql_request(prompt)
                THEN get_sql_query(session_key, up)
                ELSE get_general_response(session_key, up)
       IN IF ~Truthy(session_key)
          THEN messages' = withUser /\ lastCall' = NoResult
          ELSE IF is_sql_request(prompt) /\ schema_text = ""
          THEN /\ messages' =
                     Append(withUser, Turn("assistant", "warning", <<>>, ""))
               /\ lastCall' = NoResult
          ELSE /\ lastCall' = r
               /\ messages' =
                     IF r.status = "error" THEN withUser
                     ELSE Append(withUser,
                                 Turn("assistant",
                                      IF is_sql_request(prompt) THEN "sql"
                                      ELSE "answer",
                                      r.value, ""))
    /\ UNCHANGED <<session_key, request, ragVars, apiVars>>

\* lines 266-313: one prompt is handled
ChatInput(prompt, schema_text, up) ==
    /\ Len(messages) + 2 <= MaxTurns
    /\ LET withUser == Append(messages, Turn("user", "prompt", <<>>, prompt))
           r == IF is_sql_request(prompt)
                THEN get_sql_query(session_key, up)
                ELSE get_general_response(session_key, up)
       IN IF ~Truthy(session_key)
          THEN messages' = withUser /\ lastCall' = NoResult
          ELSE IF is_sql_request(prompt) /\ schema_text = ""
          THEN /\ messages' =
                     Append(withUser, Turn("assistant", "warning", <<>>, ""))
               /\ lastCall' = NoResult
          ELSE /\ lastCall' = r
               /\ messages' =
                     IF r.status = "error"
                     THEN Append(withUser,
                                 Turn("assistant", "error", <<>>, r.msg))
                     ELSE Append(withUser,
                                 Turn("assistant",
                                      IF is_sql_request(prompt) THEN "sql"
                                      ELSE "answer",
                                      r.value, ""))
    /\ UNCHANGED <<session_key, request, ragVars, apiVars>>

\* lines 217-219 and 254-258: a new session
InitChat ==
    /\ NewHandler
    /\ NoApiCall
    /\ messages = <<Greeting>>
    /\ session_key \in Keys
    /\ lastCall = NoResult
    /\ request = None

NextChat ==
    \E prompt \in Prompts, schema_text \in SchemaTexts, up \in ChatUpstreams :
        ChatInput(prompt, schema_text, up)

SpecChat == InitChat /\ [][NextChat]_vars

----------------------------------------------------------------------------
(* Properties of the chat input handler, under SpecChat *)

AssistantTurns(m) == SelectSeq(m, LAMBDA t : t.role = "assistant")

\* this step handled a prompt whose completion call failed
CompletionFailedStep ==
    /\ Len(messages') > Len(messages)
    /\ lastCall'.status = "error"

\* C6 as claimed: handling a prompt whose completion call fails adds no
\* assistant turn to the history.
C6_FailureAppendsNoAssistantTurn ==
    [][CompletionFailedStep =>
          AssistantTurns(messages') = AssistantTurns(messages)]_vars

\* C6, amended: handling a prompt whose completion call fails appends the
\* user turn and exactly one assistant turn, which holds the error message
\* and no completion text.
C6_FailureAppendsErrorTurn ==
    [][CompletionFailedStep =>
          \E prompt \in Prompts :
              messages' = messages
                  \o <<Turn("user", "prompt", <<>>, prompt),
                       Turn("assistant", "error", <<>>, lastCall'.msg)>>]_vars

\* a prompt whose completion call was rate limited has been handled
C6_Witness ==
    /\ lastCall.status = "error"
    /\ lastCall.msg = "Groq rate limit exceeded. Please check your plan."
    /\ Len(messages) >= 3
    /\ messages[Len(messages)].tag = "error"

----------------------------------------------------------------------------
(* llm_handler.py: get_intelligent_response (lines 73-92), called with the *)
(* session's history as chat_history                                       *)

\* the schema argument: empty, blank, or a schema
IntelSchemas == SchemaTexts \cup {" "}

\* schema and schema.strip()
SchemaPresent(schema) == schema \notin {"", " "}

\* lines 78-88: the system message and the sampling settings
SystemTurn(schema) ==
    IF SchemaPresent(schema)
    THEN Turn("system", "contextual", <<>>, schema)
    ELSE Turn("system", "general", <<>>, "")

RequestOf(schema, msgs) ==
    [messages |-> msgs,
     temperature |-> IF SchemaPresent(schema) THEN "0.1" ELSE "0.7",
     max_tokens |-> IF SchemaPresent(schema) THEN 2000 ELSE 1500]

\* line 90: [msg for msg in chat_history if msg.get("role") != "system"]
RECURSIVE WithoutSystem(_)
WithoutSystem(history) ==
    IF history = <<>> THEN <<>>
    ELSE IF Head(history).role = "system" THEN WithoutSystem(Tail(history))
    ELSE <<Head(history)>> \o WithoutSystem(Tail(history))

\* get_intelligent_response as it would be if the system message were
\* inserted into chat_history itself and that list sent as the request
get_intelligent_response_in_place(chat_history, schema, key, env, up) ==
    LET msgs == <<SystemTurn(schema)>> \o chat_history
    IN [chat_history |-> msgs,
        request |-> RequestOf(schema, msgs),
        result |-> call_groq_api(key, env, up)]

\* get_intelligent_response: the list passed as chat_history after the call,
\* the request sent, and how the call ended
get_intelligent_response(chat_history, schema, key, env, up) ==
    LET msgs == <<SystemTurn(schema)>> \o WithoutSystem(chat_history)
    IN [chat_history |-> chat_history,
        request |-> RequestOf(schema, msgs),
        result |-> call_groq_api(key, env, up)]

\* a caller asks for a response to the session's history
IntelligentResponse(schema, up) ==
    /\ messages # <<>>
    /\ LET r == get_intelligent_response(messages, schema, session_key,
                                         None, up)
       IN /\ messages' = r.chat_history
          /\ request' = Some(r.request)
          /\ lastCall' = r.result
    /\ UNCHANGED <<session_key, ragVars, apiVars>>

\* a new session: the history as app.py starts it, or one a caller has
\* seeded with a system turn before the greeting
InitHistory ==
    /\ NewHandler
    /\ NoApiCall
    /\ messages \in {<<Greeting>>, <<SystemTurn(""), Greeting>>}
    /\ session_key \in Keys
    /\ lastCall = NoResult
    /\ request = None

NextHistory ==
    \/ \E prompt \in Prompts, schema_text \in SchemaTexts,
          up \in ChatUpstreams :
           ChatInput(prompt, schema_text, up)
    \/ \E schema \in IntelSchemas, up \in ChatUpstreams :
           IntelligentResponse(schema, up)

SpecHistory == InitHistory /\ [][NextHistory]_vars

----------------------------------------------------------------------------
(* Properties of the conversation history, under SpecHistory *)

\* C11: the history is append-only: every step leaves the turns it held
\* unchanged in content, role and position and at most adds turns at the
\* end; a step that builds the model request leaves the history as it was.
C11_HistoryAppendOnly ==
    [][/\ Len(messages') >= Len(messages)
       /\ SubSeq(messages', 1, Len(messages)) = messages
       /\ (request' # request) => messages' = messages]_vars

\* a request has been built from a history of several turns that holds a
\* system turn: the request leaves that turn out, the history still has it
C11_Witness ==
    /\ request # None
    /\ Len(messages) >= 4
    /\ messages[1].role = "system"
    /\ messages[Len(messages)].role = "assistant"
    /\ Len(request[1].messages) = Len(messages)
    /\ \A i \in 2..Len(messages) : request[1].messages[i] = messages[i]
    /\ request[1].messages[1] # messages[1]

====
